---------------------------- MODULE Spec2Model ----------------------------
(***************************************************************************)
(* Job orchestration (src/src/job_manager.py, src/src/database.py) and the *)
(* incremental crawl loop (src/src/scraper.py) of facebook-groups-bot.      *)
(*                                                                         *)
(* A job task is a coroutine: its position is the await it is suspended    *)
(* on.  One step of a task is the completion of that await (normally, with *)
(* an exception, or with CancelledError) followed by the synchronous code  *)
(* up to the next await.                                                   *)
(***************************************************************************)
EXTENDS Integers, Sequences, FiniteSets, TLC

\* ------------------------------------------------------------------ bounds
MaxJobs == 1        \* job ids ever allocated (uuid4 values, never reused)
MaxPosts == 1       \* Item rows the Collect stage may create
MaxCrashes == 1     \* process restarts

JobIds == 1..MaxJobs

\* a dispatch whose last branch takes every remaining kind
JobTypes_ElseIsAct == {"scrape", "classify", "message", "invite", "full", "export"}

MaxCallers == 2
MaxSleeps == 4
Callers == 1..MaxCallers

\* --------------------------------------------------------------- constants
\* _periodic_cleanup: asyncio.sleep(300), and age > 600
CleanupInterval == 300
MaxAge == 600
JobTypes == {"scrape", "classify", "message", "invite", "full"}
\* a kind outside the accepted ones, as a caller of start_job may pass it
UnknownType == "export"
\* The kinds callers pass for the one bot of the model, a lead bot: the HTTP
\* layer passes "message" for it (app.py l.600), never "invite"
StartKinds == {"scrape", "classify", "message", "full", UnknownType}
Terminal == {"completed", "failed", "cancelled"}
RestartMsg == "Job marked as failed due to system restart"

\* Optional arguments (Python None / a value)
None == <<>>
Some(v) == <<v>>

VARIABLES
    initialized,   \* JobManager._initialized
    registry,      \* keys of JobManager._jobs
    ctx,           \* JobContext objects of this process, by job id
    task,          \* the asyncio.Task of each context: its coroutine frame
    hist,          \* per job (history): the stage calls made so far and how
                   \* each ended
    dbJobs,        \* table jobs
    dbRuns,        \* table bot_runs
    posts,         \* table posts (Items)
    crashes,       \* process restarts so far
    cancelRet,     \* value cancel_job has just returned to its caller
    crawl,         \* the locals of one call of FacebookScraper.scrape_posts
    postTable,     \* table posts, the rows of one bot with the columns the
                   \* stages read and write (user_id, content, is_lead, is_contacted)
    groupRow,      \* table group: the row of one source group of that bot
    clock,         \* datetime.now()
    feed,          \* the raw items on the page of the source group
    coll,          \* the Collect runs on that group: their locals
    runs,          \* the Classify and Act runs on that bot: their locals
    outbox,        \* the messages and invitations that went out: <<run, row>>
    thr,           \* the posts of a bot classified under each threshold
    boot,          \* the calls of JobManager.initialize in progress: their locals
    timed          \* JobManager._jobs with the times of its entries, and
                   \* datetime.now() as _periodic_cleanup reads it

jobVars == <<initialized, registry, ctx, task, hist, dbJobs, dbRuns, posts,
             crashes, cancelRet>>
stageVars == <<postTable, groupRow, clock, feed, coll, runs, outbox, thr>>
mgrVars == <<boot, timed>>
vars == <<jobVars, crawl, stageVars, mgrVars>>

NoRet == [job |-> 0, value |-> FALSE]

\* scrape_posts not called yet: the locals as l.434-440 set them
IdleCrawl ==
    [pc |-> "idle", latest_post_date |-> None, max_posts_to_scan |-> 0,
     number_of_posts |-> 0, current_index |-> 0, scraped_posts |-> 0,
     dane_z_postu |-> <<>>, old_posts_streak |-> 0, no_new_posts_streak |-> 0,
     seen |-> <<>>, page |-> "any"]

\* datetime(year, month, day, hour, minute) as minutes, months of 31 days
DateTime(year, month, day, hour, minute) ==
    (((year * 12 + month) * 31 + day) * 24 + hour) * 60 + minute

\* One day of the clock
Day == DateTime(0, 0, 1, 0, 0)

\* The Collect runs of the model, and the ticks of the clock
MaxCollectors == 2
MaxTicks == 1
Collectors == 1..MaxCollectors

\* The row of the source group before the first crawl (sync_groups_from_config
\* sets last_scrape_date to a time before now, last_run_error to False)
InitialGroup ==
    [last_scrape_date |-> DateTime(2024, 1, 4, 0, 0), last_run_error |-> FALSE,
     last_error_message |-> ""]
ClockStart == DateTime(2024, 1, 6, 0, 0)

\* A Collect run that has not begun
IdleCollector ==
    [pc |-> "idle", start_time |-> 0, latest |-> None, max_posts |-> 0,
     shown |-> 0, returned |-> <<>>, k |-> 1, inserted |-> 0, midway |-> FALSE,
     rerun |-> FALSE, ok |-> FALSE]

\* The Classify and Act runs of the model, and the rows of table posts
MaxRuns == 2
MaxRows == 3
Runs == 1..MaxRuns

\* A Classify or Act run that has not begun
IdleRun ==
    [pc |-> "idle", stage |-> "", path |-> "", posts |-> <<>>, output |-> <<>>,
     i |-> 1, attempts |-> <<>>]

\* A call of JobManager.initialize that has not been made
IdleCaller == [pc |-> "idle", stale |-> <<>>]

\* similarity_threshold of check_duplicate_lead: its default, and a lower one
SimilarityThreshold == 80
\* batch_size of classify_posts
BatchSize == 10
Thresholds == {60, SimilarityThreshold}

\* ------------------------------------------------------------- persistence
\* update_job: every argument is optional; the row must exist.
UpdateJob(db, j, status, progress, current_step, log_message) ==
    IF j \notin DOMAIN db THEN db
    ELSE [db EXCEPT ![j] =
            [@ EXCEPT !.status = IF status # None THEN status[1] ELSE @,
                      !.progress = IF progress # None THEN progress[1] ELSE @,
                      !.current_step = IF current_step # None THEN current_step[1] ELSE @,
                      !.log = IF log_message # None THEN Append(@, log_message[1]) ELSE @]]

\* update_bot_run: status and error_message (the item counters total_items
\* and processed_items of a Run are not modelled)
UpdateBotRun(db, r, status, error_message) ==
    IF r \notin DOMAIN db THEN db
    ELSE [db EXCEPT ![r] =
            [@ EXCEPT !.status = IF status # None THEN status[1] ELSE @,
                      !.finished = IF status # None /\ status[1] \in Terminal
                                   THEN TRUE ELSE @,
                      !.error = IF error_message # None THEN error_message[1] ELSE @]]

\* create_bot_run
NewBotRun(kind) ==
    [run_type |-> kind, status |-> "running", finished |-> FALSE, error |-> ""]

\* create_job
NewJobRow(kind, run) ==
    [job_type |-> kind, bot_run_id |-> run, status |-> "pending", progress |-> 0,
     current_step |-> "", log |-> <<>>]

\* cleanup_stale_jobs selecting every row that is not terminal
StaleJobs_NotTerminal(db) == {j \in DOMAIN db : db[j].status \notin Terminal}

\* cleanup_stale_jobs: the rows selected with status running are marked failed
StaleJobs(db) == {j \in DOMAIN db : db[j].status = "running"}

CleanupStaleJobs(db) ==
    [j \in DOMAIN db |->
        IF j \in StaleJobs(db)
        THEN [db[j] EXCEPT !.status = "failed", !.log = Append(@, RestartMsg)]
        ELSE db[j]]

\* ------------------------------------------------------------------- Init
Init ==
    /\ initialized = FALSE
    /\ registry = {}
    /\ ctx = <<>>
    /\ task = <<>>
    /\ hist = <<>>
    /\ dbJobs = <<>>
    /\ dbRuns = <<>>
    /\ posts = <<>>
    /\ crashes = 0
    /\ cancelRet = NoRet
    /\ crawl = IdleCrawl
    /\ postTable = <<>>
    /\ groupRow = InitialGroup
    /\ clock = ClockStart
    /\ feed = <<>>
    /\ coll = [p \in Collectors |-> IdleCollector]
    /\ runs = [w \in Runs |-> IdleRun]
    /\ outbox = {}
    /\ thr = [t \in Thresholds |-> [table |-> <<>>, demoted |-> {}]]
    /\ boot = [c \in Callers |-> IdleCaller]
    /\ timed = [now |-> 0, due |-> FALSE, started |-> 0, jobs |-> <<>>]


\* ------------------------------------------------------- job task: layout
\* The awaits of _run_job and of the stage functions it calls.
ScrapeAwaits == {"s_start", "s_groups", "s_done"}
ClassifyAwaits == {"c_start", "c_none", "c_classify", "c_done_job", "c_done_run"}
ProcessAwaits == {"p_start", "p_none", "p_init", "p_run", "p_done_job",
                  "p_done_run", "p_close"}
FullAwaits == {"f_step1", "f_33", "f_step2", "f_66", "f_step3", "f_100"}
\* awaits inside the try block of _run_job, before a terminal status is set
BodyAwaits == {"upd_running"} \cup ScrapeAwaits \cup ClassifyAwaits
                \cup ProcessAwaits \cup FullAwaits
\* awaits of _run_job after it has set a terminal status
CompletedAwaits == {"e_job", "e_run"}
CancelledAwaits == {"x_job", "x_run"}
FailedAwaits == {"h_job", "h_run"}
\* awaits of _run_process_job covered by its try/finally
FinallyGuarded == {"p_run", "p_done_job", "p_done_run"}

\* The stage a stage-function await belongs to
StageOf(label) ==
    IF label \in ScrapeAwaits THEN "Collect"
    ELSE IF label \in ClassifyAwaits THEN "Classify"
    ELSE IF label \in ProcessAwaits THEN "Act"
    ELSE "none"

NewFrame == [pc |-> "init", must_cancel |-> FALSE, exc |-> "", sel |-> {}]

\* start_job: rows, context and task are created for whatever kind is passed
StartJob(kind) ==
    LET j == Cardinality(DOMAIN dbJobs) + 1
        r == Cardinality(DOMAIN dbRuns) + 1
    IN  /\ initialized
        /\ cancelRet = NoRet
        /\ j \in JobIds
        /\ dbRuns' = dbRuns @@ (r :> NewBotRun(kind))
        /\ dbJobs' = dbJobs @@ (j :> NewJobRow(kind, r))
        /\ ctx' = ctx @@ (j :> [job_type |-> kind, status |-> "pending", progress |-> 0,
                                bot_run_id |-> r, cancellation_token |-> FALSE])
        /\ task' = task @@ (j :> NewFrame)
        /\ hist' = hist @@ (j :> [calls |-> <<>>])
        /\ registry' = registry \cup {j}
        /\ UNCHANGED <<initialized, posts, crashes, cancelRet>>
        /\ UNCHANGED <<crawl, stageVars, mgrVars>>

\* _run_full_pipeline going on to step 3 when Collect returns
AfterStage_SkipsClassify(kind, stage) ==
    IF kind # "full"
    THEN [pc |-> "e_job", status |-> "completed", progress |-> Some(100)]
    ELSE IF stage \in {"Collect", "Classify"}
         THEN [pc |-> "f_66", status |-> "running", progress |-> Some(66)]
    ELSE [pc |-> "f_100", status |-> "running", progress |-> Some(100)]

\* What _run_job / _run_full_pipeline do when a stage function returns: the
\* next await, and the context's status and progress at that await.
AfterStage(kind, stage) ==
    IF kind # "full"
    THEN [pc |-> "e_job", status |-> "completed", progress |-> Some(100)]
    ELSE IF stage = "Collect"
         THEN [pc |-> "f_33", status |-> "running", progress |-> Some(33)]
    ELSE IF stage = "Classify"
         THEN [pc |-> "f_66", status |-> "running", progress |-> Some(66)]
    ELSE [pc |-> "f_100", status |-> "running", progress |-> Some(100)]

\* The await a stage function starts with
FirstAwait(stage) ==
    IF stage = "Collect" THEN "s_start"
    ELSE IF stage = "Classify" THEN "c_start" ELSE "p_start"

\* The stage the dispatch of _run_job calls for a kind ("" for full, which
\* first updates the row)
StageOfKind(kind) ==
    IF kind = "scrape" THEN "Collect"
    ELSE IF kind = "classify" THEN "Classify"
    ELSE IF kind \in {"message", "invite"} THEN "Act"
    ELSE "none"

Running(j) == j \in DOMAIN task /\ task[j].pc # "done"
Deliverable(j) == Running(j) /\ ~task[j].must_cancel /\ cancelRet = NoRet

SetCtx(j, status, progress) ==
    ctx' = [ctx EXCEPT ![j].status = status,
                       ![j].progress = IF progress # None THEN progress[1] ELSE @]

\* A stage function returns normally to its caller
StageReturns(j, stage) ==
    LET a == AfterStage(ctx[j].job_type, stage)
    IN  /\ SetCtx(j, a.status, a.progress)
        /\ task' = [task EXCEPT ![j].pc = a.pc, ![j].sel = {}]
        /\ hist' = [hist EXCEPT ![j].calls = Append(@, <<stage, "end">>)]

\* A stage function is called
StageCalled(j, stage) ==
    /\ task' = [task EXCEPT ![j].pc = FirstAwait(stage)]
    /\ hist' = [hist EXCEPT ![j].calls = Append(@, <<stage, "start">>)]

\* _run_job swallowing an exception of its body and completing the job
Handler_FailureCompletes(at, cancelled) ==
    IF at = "init" THEN [status |-> None, pc |-> "done"]
    ELSE IF at \in CancelledAwaits \cup FailedAwaits THEN [status |-> None, pc |-> "done"]
    ELSE IF cancelled THEN [status |-> Some("cancelled"), pc |-> "x_job"]
    ELSE [status |-> Some("completed"), pc |-> "e_job"]

\* The exception handlers of _run_job: what the coroutine does when an
\* exception of the given class reaches the try statement from await `at`.
\* Returns the new status (None: unchanged) and the next await.
Handler(at, cancelled) ==
    IF at = "init" THEN [status |-> None, pc |-> "done"]
    ELSE IF at \in CancelledAwaits \cup FailedAwaits THEN [status |-> None, pc |-> "done"]
    ELSE IF cancelled THEN [status |-> Some("cancelled"), pc |-> "x_job"]
    ELSE [status |-> Some("failed"), pc |-> "h_job"]

\* An exception (CancelledError when cancelled, else e) leaves await `at`.
\* When it leaves a stage function, the history records how the stage ended.
Propagate(j, e, cancelled) ==
    LET at == task[j].pc
        h == Handler(at, cancelled)
    IN  IF at \in FinallyGuarded
        THEN \* finally: await scraper.close(), the exception pending
             /\ task' = [task EXCEPT ![j].pc = "p_close", ![j].must_cancel = FALSE,
                                     ![j].exc = IF cancelled THEN "CancelledError" ELSE e]
             /\ UNCHANGED <<ctx, hist>>
        ELSE \* the frames of the stage functions are unwound
             /\ task' = [task EXCEPT ![j].pc = h.pc, ![j].must_cancel = FALSE,
                                     ![j].exc = IF cancelled \/ h.pc = "done" THEN "" ELSE e,
                                     ![j].sel = {}]
             /\ ctx' = [ctx EXCEPT ![j].status = IF h.status # None THEN h.status[1] ELSE @]
             /\ hist' = IF StageOf(at) = "none" THEN hist
                        ELSE [hist EXCEPT ![j].calls =
                                 Append(@, <<StageOf(at),
                                             IF cancelled THEN "cancelled" ELSE "raised">>)]

\* -------------------------------------------------- stage effects on Items
Unclassified == {i \in DOMAIN posts : posts[i].is_lead = "NULL"}
Candidates == {i \in DOMAIN posts : posts[i].is_lead = "TRUE" /\ ~posts[i].is_contacted}

\* process_all_groups: the Items a crawl persists (k new rows, unclassified)
CollectItems(p, k) ==
    [i \in 1..(Len(p) + k) |->
        IF i <= Len(p) THEN p[i] ELSE [is_lead |-> "NULL", is_contacted |-> FALSE]]

\* classify_posts: every selected post gets a decision; leads are the candidates
ClassifyItems(p, sel, leads) ==
    [i \in DOMAIN p |->
        IF i \in sel THEN [p[i] EXCEPT !.is_lead = IF i \in leads THEN "TRUE" ELSE "FALSE"]
        ELSE p[i]]

\* process_candidates: the candidates acted on are marked contacted
ContactItems(p, acted) ==
    [i \in DOMAIN p |-> IF i \in acted THEN [p[i] EXCEPT !.is_contacted = TRUE] ELSE p[i]]

\* -------------------------------------------------------- job task: steps
\* First step of the task: status running, then await update_job (l.135-137)
TaskStarts(j) ==
    /\ Deliverable(j)
    /\ task[j].pc = "init"
    /\ SetCtx(j, "running", None)
    /\ task' = [task EXCEPT ![j].pc = "upd_running"]
    /\ UNCHANGED <<initialized, registry, hist, dbJobs, dbRuns, posts, crashes, cancelRet>>
    /\ UNCHANGED <<crawl, stageVars, mgrVars>>

\* update_job(status="running") returns; get_bot_config; dispatch on the kind
\* (l.137-152).  An unknown kind raises ValueError inside the try block.
Dispatch(j) ==
    LET kind == ctx[j].job_type
    IN  /\ Deliverable(j)
        /\ task[j].pc = "upd_running"
        /\ dbJobs' = UpdateJob(dbJobs, j, Some("running"), None, Some("Starting..."), None)
        /\ IF kind = "full"
           THEN /\ task' = [task EXCEPT ![j].pc = "f_step1"]
                /\ UNCHANGED <<ctx, hist>>
           ELSE IF kind \in JobTypes
           THEN /\ StageCalled(j, StageOfKind(kind))
                /\ UNCHANGED ctx
           ELSE Propagate(j, "Unknown job type", FALSE)
        /\ UNCHANGED <<initialized, registry, dbRuns, posts, crashes, cancelRet>>
        /\ UNCHANGED <<crawl, stageVars, mgrVars>>

\* _run_scrape_job (l.180-196)
ScrapeStep(j) ==
    /\ Deliverable(j)
    /\ task[j].pc \in ScrapeAwaits
    /\ \/ /\ task[j].pc = "s_start"
          /\ dbJobs' = UpdateJob(dbJobs, j, None, None, Some("Scraping groups..."),
                                 Some("Starting group scraping"))
          /\ task' = [task EXCEPT ![j].pc = "s_groups"]
          /\ UNCHANGED <<ctx, hist, posts>>
       \/ /\ task[j].pc = "s_groups"
          /\ \E k \in 0..(MaxPosts - Len(posts)) : posts' = CollectItems(posts, k)
          /\ SetCtx(j, ctx[j].status, Some(100))
          /\ task' = [task EXCEPT ![j].pc = "s_done"]
          /\ UNCHANGED <<dbJobs, hist>>
       \/ /\ task[j].pc = "s_done"
          /\ dbJobs' = UpdateJob(dbJobs, j, None, Some(100), None, Some("Scraping completed"))
          /\ StageReturns(j, "Collect")
          /\ UNCHANGED posts
    /\ UNCHANGED <<initialized, registry, dbRuns, crashes, cancelRet>>
    /\ UNCHANGED <<crawl, stageVars, mgrVars>>

\* _run_classify_job (l.198-231)
ClassifyStep(j) ==
    /\ Deliverable(j)
    /\ task[j].pc \in ClassifyAwaits
    /\ \/ /\ task[j].pc = "c_start"
          /\ dbJobs' = UpdateJob(dbJobs, j, None, None, Some("Classifying posts..."),
                                 Some("Starting post classification"))
          /\ task' = [task EXCEPT ![j].pc = IF Unclassified = {} THEN "c_none"
                                             ELSE "c_classify",
                                  ![j].sel = Unclassified]
          /\ UNCHANGED <<ctx, hist, posts, dbRuns>>
       \/ /\ task[j].pc = "c_none"
          /\ dbJobs' = UpdateJob(dbJobs, j, None, None, None, Some("No posts to classify"))
          /\ StageReturns(j, "Classify")
          /\ UNCHANGED <<posts, dbRuns>>
       \/ /\ task[j].pc = "c_classify"
          /\ \E leads \in SUBSET task[j].sel :
                /\ posts' = ClassifyItems(posts, task[j].sel, leads)
                /\ task' = [task EXCEPT ![j].pc = "c_done_job"]
          /\ SetCtx(j, ctx[j].status, Some(100))
          /\ UNCHANGED <<dbJobs, dbRuns, hist>>
       \/ /\ task[j].pc = "c_done_job"
          /\ dbJobs' = UpdateJob(dbJobs, j, None, Some(100), None,
                                 Some("Classification completed: candidates found"))
          /\ task' = [task EXCEPT ![j].pc = "c_done_run"]
          /\ UNCHANGED <<ctx, hist, posts, dbRuns>>
       \/ /\ task[j].pc = "c_done_run"
          /\ dbRuns' = UpdateBotRun(dbRuns, ctx[j].bot_run_id, None, None)
          /\ StageReturns(j, "Classify")
          /\ UNCHANGED <<dbJobs, posts>>
    /\ UNCHANGED <<initialized, registry, crashes, cancelRet>>
    /\ UNCHANGED <<crawl, stageVars, mgrVars>>

\* _run_process_job (l.233-285)
ProcessStep(j) ==
    /\ Deliverable(j)
    /\ task[j].pc \in ProcessAwaits
    /\ \/ /\ task[j].pc = "p_start"
          /\ dbJobs' = UpdateJob(dbJobs, j, None, None,
                                 Some(IF ctx[j].job_type = "message" THEN "Messaging..."
                                      ELSE "Inviting..."),
                                 Some(IF ctx[j].job_type = "message" THEN "Starting messaging"
                                      ELSE "Starting inviting"))
          /\ task' = [task EXCEPT ![j].pc = IF Candidates = {} THEN "p_none" ELSE "p_init",
                                  ![j].sel = Candidates]
          /\ UNCHANGED <<ctx, hist, posts, dbRuns>>
       \/ /\ task[j].pc = "p_none"
          /\ dbJobs' = UpdateJob(dbJobs, j, None, None, None, Some("No candidates to process"))
          /\ StageReturns(j, "Act")
          /\ UNCHANGED <<posts, dbRuns>>
       \/ /\ task[j].pc = "p_init"
          /\ task' = [task EXCEPT ![j].pc = "p_run"]
          /\ UNCHANGED <<ctx, hist, posts, dbJobs, dbRuns>>
       \/ /\ task[j].pc = "p_run"
          /\ \E acted \in SUBSET task[j].sel :
                /\ posts' = ContactItems(posts, acted)
                /\ task' = [task EXCEPT ![j].pc = "p_done_job"]
          /\ SetCtx(j, ctx[j].status, Some(100))
          /\ UNCHANGED <<dbJobs, dbRuns, hist>>
       \/ /\ task[j].pc = "p_done_job"
          /\ dbJobs' = UpdateJob(dbJobs, j, None, Some(100), None, Some(IF ctx[j].job_type = "message"
                                      THEN "Messaging completed: processed"
                                      ELSE "Inviting completed: processed"))
          /\ task' = [task EXCEPT ![j].pc = "p_done_run"]
          /\ UNCHANGED <<ctx, hist, posts, dbRuns>>
       \/ /\ task[j].pc = "p_done_run"
          /\ dbRuns' = UpdateBotRun(dbRuns, ctx[j].bot_run_id, None, None)
          /\ task' = [task EXCEPT ![j].pc = "p_close"]
          /\ UNCHANGED <<ctx, hist, posts, dbJobs>>
       \/ /\ task[j].pc = "p_close"
          /\ IF task[j].exc = ""
             THEN StageReturns(j, "Act")
             ELSE Propagate(j, task[j].exc, task[j].exc = "CancelledError")
          /\ UNCHANGED <<posts, dbJobs, dbRuns>>
    /\ UNCHANGED <<initialized, registry, crashes, cancelRet>>
    /\ UNCHANGED <<crawl, stageVars, mgrVars>>


\* _run_full_pipeline: the updates between the stage calls (l.287-319)
FullStep(j) ==
    /\ Deliverable(j)
    /\ task[j].pc \in FullAwaits
    /\ \/ /\ task[j].pc = "f_step1"
          /\ dbJobs' = UpdateJob(dbJobs, j, None, Some(0), Some("Step 1/3: Scraping"), None)
          /\ StageCalled(j, "Collect")
          /\ UNCHANGED ctx
       \/ /\ task[j].pc = "f_33"
          /\ dbJobs' = UpdateJob(dbJobs, j, None, Some(33), None, Some("Scraping completed"))
          /\ task' = [task EXCEPT ![j].pc = "f_step2"]
          /\ UNCHANGED <<ctx, hist>>
       \/ /\ task[j].pc = "f_step2"
          /\ dbJobs' = UpdateJob(dbJobs, j, None, Some(33), Some("Step 2/3: Classifying"), None)
          /\ StageCalled(j, "Classify")
          /\ UNCHANGED ctx
       \/ /\ task[j].pc = "f_66"
          /\ dbJobs' = UpdateJob(dbJobs, j, None, Some(66), None,
                                 Some("Classification completed"))
          /\ task' = [task EXCEPT ![j].pc = "f_step3"]
          /\ UNCHANGED <<ctx, hist>>
       \/ /\ task[j].pc = "f_step3"
          /\ dbJobs' = UpdateJob(dbJobs, j, None, Some(66), Some("Step 3/3: Processing"), None)
          /\ StageCalled(j, "Act")
          /\ UNCHANGED ctx
       \/ /\ task[j].pc = "f_100"
          /\ dbJobs' = UpdateJob(dbJobs, j, None, Some(100), None,
                                 Some("Full pipeline completed"))
          /\ SetCtx(j, "completed", Some(100))
          /\ task' = [task EXCEPT ![j].pc = "e_job"]
          /\ UNCHANGED hist
    /\ UNCHANGED <<initialized, registry, dbRuns, posts, crashes, cancelRet>>
    /\ UNCHANGED <<crawl, stageVars, mgrVars>>

\* _run_job after context.status = "completed" (l.158-160)
CompletedStep(j) ==
    /\ Deliverable(j)
    /\ task[j].pc \in CompletedAwaits
    /\ \/ /\ task[j].pc = "e_job"
          /\ dbJobs' = UpdateJob(dbJobs, j, Some("completed"), Some(100), None, None)
          /\ task' = [task EXCEPT ![j].pc = "e_run"]
          /\ UNCHANGED dbRuns
       \/ /\ task[j].pc = "e_run"
          /\ dbRuns' = UpdateBotRun(dbRuns, ctx[j].bot_run_id, Some("completed"), None)
          /\ task' = [task EXCEPT ![j].pc = "done"]
          /\ UNCHANGED dbJobs
    /\ UNCHANGED <<initialized, registry, ctx, hist, posts, crashes, cancelRet>>
    /\ UNCHANGED <<crawl, stageVars, mgrVars>>

\* except asyncio.CancelledError (l.164-170)
CancelledStep(j) ==
    /\ Deliverable(j)
    /\ task[j].pc \in CancelledAwaits
    /\ \/ /\ task[j].pc = "x_job"
          /\ dbJobs' = UpdateJob(dbJobs, j, Some("cancelled"), None, None, None)
          /\ task' = [task EXCEPT ![j].pc = "x_run"]
          /\ UNCHANGED dbRuns
       \/ /\ task[j].pc = "x_run"
          /\ dbRuns' = UpdateBotRun(dbRuns, ctx[j].bot_run_id, Some("cancelled"), None)
          /\ task' = [task EXCEPT ![j].pc = "done"]
          /\ UNCHANGED dbJobs
    /\ UNCHANGED <<initialized, registry, ctx, hist, posts, crashes, cancelRet>>
    /\ UNCHANGED <<crawl, stageVars, mgrVars>>

\* except Exception as e (l.172-178)
FailedStep(j) ==
    /\ Deliverable(j)
    /\ task[j].pc \in FailedAwaits
    /\ \/ /\ task[j].pc = "h_job"
          /\ dbJobs' = UpdateJob(dbJobs, j, Some("failed"), None, None,
                                 Some("Error: " \o task[j].exc))
          /\ task' = [task EXCEPT ![j].pc = "h_run"]
          /\ UNCHANGED dbRuns
       \/ /\ task[j].pc = "h_run"
          /\ dbRuns' = UpdateBotRun(dbRuns, ctx[j].bot_run_id, Some("failed"),
                                    Some(task[j].exc))
          /\ task' = [task EXCEPT ![j].pc = "done", ![j].exc = ""]
          /\ UNCHANGED dbJobs
    /\ UNCHANGED <<initialized, registry, ctx, hist, posts, crashes, cancelRet>>
    /\ UNCHANGED <<crawl, stageVars, mgrVars>>

\* The message of an exception raised by the operation awaited at `label`
ErrorAt(label) ==
    IF StageOf(label) = "Collect" THEN "Collect error"
    ELSE IF StageOf(label) = "Classify" THEN "Classify error"
    ELSE IF StageOf(label) = "Act" THEN "Act error"
    ELSE "Database error"

\* The awaits on an external capability (crawler, classifier, browser)
CapabilityAwaits == {"s_groups", "c_classify", "p_init", "p_run", "p_close"}

\* The capability a task awaits inside a stage raises an exception
StageRaises(j) ==
    /\ Deliverable(j)
    /\ task[j].pc \in CapabilityAwaits
    /\ Propagate(j, ErrorAt(task[j].pc), FALSE)
    /\ UNCHANGED <<initialized, registry, dbJobs, dbRuns, posts, crashes, cancelRet>>
    /\ UNCHANGED <<crawl, stageVars, mgrVars>>

\* get_bot_config raises (l.140), after update_job(status="running") returned
BotConfigMissing(j) ==
    /\ Deliverable(j)
    /\ task[j].pc = "upd_running"
    /\ dbJobs' = UpdateJob(dbJobs, j, Some("running"), None, Some("Starting..."), None)
    /\ Propagate(j, "Bot config error", FALSE)
    /\ UNCHANGED <<initialized, registry, dbRuns, posts, crashes, cancelRet>>
    /\ UNCHANGED <<crawl, stageVars, mgrVars>>

\* The awaits on the database alone, before a terminal status is set
PersistAwaits == BodyAwaits \ CapabilityAwaits

\* A database call of a stage or of the pipeline raises (the row is left as
\* it was)
PersistFails(j) ==
    /\ Deliverable(j)
    /\ task[j].pc \in PersistAwaits
    /\ Propagate(j, ErrorAt(task[j].pc), FALSE)
    /\ UNCHANGED <<initialized, registry, dbJobs, dbRuns, posts, crashes, cancelRet>>
    /\ UNCHANGED <<crawl, stageVars, mgrVars>>

\* update_job / update_bot_run raises after _run_job has set a terminal
\* status (l.158-160, 168-170, 176-178)
FinalUpdateFails(j) ==
    /\ Deliverable(j)
    /\ task[j].pc \in CompletedAwaits \cup CancelledAwaits \cup FailedAwaits
    /\ Propagate(j, "Database error", FALSE)
    /\ UNCHANGED <<initialized, registry, dbJobs, dbRuns, posts, crashes, cancelRet>>
    /\ UNCHANGED <<crawl, stageVars, mgrVars>>

\* A cancelled task is resumed: CancelledError is thrown into the coroutine at
\* the await it is suspended on (at "init": before its first statement)
TaskCancelled(j) ==
    /\ Running(j)
    /\ task[j].must_cancel
    /\ cancelRet = NoRet
    /\ Propagate(j, "", TRUE)
    /\ UNCHANGED <<initialized, registry, dbJobs, dbRuns, posts, crashes, cancelRet>>
    /\ UNCHANGED <<crawl, stageVars, mgrVars>>

\* cancel_job without the check of l.337-339 on terminal statuses
CancelJobReturn_IgnoresStatus(j) == j \in registry

\* ------------------------------------------------------------- JobManager
\* cancel_job (l.321-351)
CancelJobReturn(j) ==
    IF j \notin registry THEN FALSE
    ELSE IF ctx[j].status \in Terminal THEN FALSE
    ELSE TRUE

\* cancel_job's effect on the context and its task
CancelJobCall(j) ==
    /\ cancelRet = NoRet
    /\ IF CancelJobReturn(j)
       THEN /\ ctx' = [ctx EXCEPT ![j].cancellation_token = TRUE]
            /\ task' = [task EXCEPT ![j].must_cancel = (@ \/ task[j].pc # "done")]
       ELSE UNCHANGED <<ctx, task>>
    /\ UNCHANGED <<initialized, registry, hist, dbJobs, dbRuns, posts, crashes>>
    /\ UNCHANGED <<crawl, stageVars, mgrVars>>

\* cancel_job called by a caller that drops the value
CancelJob(j) ==
    /\ CancelJobCall(j)
    /\ UNCHANGED cancelRet

\* cancel_job called by the HTTP handler, which receives the value
CancelJobApi(j) ==
    /\ CancelJobCall(j)
    /\ cancelRet' = [job |-> j, value |-> CancelJobReturn(j)]

\* the HTTP handler turns the value into its response (app.py l.657-671)
CancelResponds ==
    /\ cancelRet # NoRet
    /\ cancelRet' = NoRet
    /\ UNCHANGED <<initialized, registry, ctx, task, hist, dbJobs, dbRuns, posts, crashes>>
    /\ UNCHANGED <<crawl, stageVars, mgrVars>>

\* _periodic_cleanup (l.385-406): one pass; `aged` are the jobs whose age
\* (now - started_at) exceeds 600 s
CleanupRemoves(aged) == {j \in registry : ctx[j].status \in Terminal /\ j \in aged}

PeriodicCleanup ==
    /\ initialized
    /\ cancelRet = NoRet
    /\ \E aged \in SUBSET registry :
          /\ CleanupRemoves(aged) # {}
          /\ registry' = registry \ CleanupRemoves(aged)
    /\ UNCHANGED <<initialized, ctx, task, hist, dbJobs, dbRuns, posts, crashes, cancelRet>>
    /\ UNCHANGED <<crawl, stageVars, mgrVars>>

\* initialize (l.48-63): recovery, once per process
Initialize ==
    /\ ~initialized
    /\ cancelRet = NoRet
    /\ dbJobs' = CleanupStaleJobs(dbJobs)
    /\ initialized' = TRUE
    /\ UNCHANGED <<registry, ctx, task, hist, dbRuns, posts, crashes, cancelRet>>
    /\ UNCHANGED <<crawl, stageVars, mgrVars>>

\* The process dies and is started again: memory is lost, the tables stay
Crash ==
    /\ crashes < MaxCrashes
    /\ DOMAIN dbJobs # {}
    /\ crashes' = crashes + 1
    /\ initialized' = FALSE
    /\ registry' = {}
    /\ ctx' = <<>>
    /\ task' = <<>>
    /\ hist' = <<>>
    /\ cancelRet' = NoRet
    /\ UNCHANGED <<dbJobs, dbRuns, posts>>
    /\ UNCHANGED <<crawl, stageVars, mgrVars>>

TaskNext(j) ==
    \/ TaskStarts(j)
    \/ Dispatch(j)
    \/ ScrapeStep(j)
    \/ ClassifyStep(j)
    \/ ProcessStep(j)
    \/ FullStep(j)
    \/ CompletedStep(j)
    \/ CancelledStep(j)
    \/ FailedStep(j)
    \/ StageRaises(j)
    \/ BotConfigMissing(j)
    \/ TaskCancelled(j)

Next ==
    \/ Initialize
    \/ \E kind \in StartKinds : StartJob(kind)
    \/ \E j \in JobIds : CancelJob(j)
    \/ Crash
    \/ \E j \in JobIds : TaskNext(j)

Spec == Init /\ [][Next]_vars

\* The same system when the database calls inside the stages may fail
NextPF == Next \/ \E j \in JobIds : PersistFails(j)

SpecPF == Init /\ [][NextPF]_vars

\* ... and when the updates after a terminal status may fail as well
NextFinalPF == NextPF \/ \E j \in JobIds : FinalUpdateFails(j)

SpecFinalPF == Init /\ [][NextFinalPF]_vars

\* The same system driven through the HTTP surface: the value of cancel_job
\* is observed, and the periodic cleanup of the registry runs.  The jobs are
\* of the kinds ApiKinds.
ApiKinds == {"scrape"}

ApiTaskNext(j) ==
    \/ TaskStarts(j)
    \/ Dispatch(j)
    \/ ScrapeStep(j)
    \/ CompletedStep(j)
    \/ CancelledStep(j)
    \/ FailedStep(j)
    \/ StageRaises(j)
    \/ BotConfigMissing(j)
    \/ TaskCancelled(j)

NextApi ==
    \/ Initialize
    \/ \E kind \in ApiKinds : StartJob(kind)
    \/ \E j \in JobIds : CancelJobApi(j)
    \/ CancelResponds
    \/ PeriodicCleanup
    \/ Crash
    \/ \E j \in JobIds : ApiTaskNext(j)

SpecApi == Init /\ [][NextApi]_vars


\* ------------------------------------------------------------- crawl loop
\* FacebookScraper.scrape_posts (scraper.py l.418-540) on one group page.
MaxFeed == 4        \* raw items the page ever loads

\* The tooltip texts the pages of the model show
DateTips == {"wczoraj o 10:00", "3 stycznia 2024 o 10:00", "5 stycznia 2024 o 10:00"}

\* parse_facebook_date on these texts: the part before " o " needs three
\* words (day, month name, year), else the result is None
ParseFacebookDate(date_str) ==
    IF date_str = "3 stycznia 2024 o 10:00" THEN Some(DateTime(2024, 1, 3, 10, 0))
    ELSE IF date_str = "4 stycznia 2024 o 10:00" THEN Some(DateTime(2024, 1, 4, 10, 0))
    ELSE IF date_str = "5 stycznia 2024 o 10:00" THEN Some(DateTime(2024, 1, 5, 10, 0))
    ELSE IF date_str = "18 grudnia 2023 o 10:00" THEN Some(DateTime(2023, 12, 18, 10, 0))
    ELSE IF date_str = "19 grudnia 2023 o 10:00" THEN Some(DateTime(2023, 12, 19, 10, 0))
    ELSE IF date_str = "20 grudnia 2023 o 10:00" THEN Some(DateTime(2023, 12, 20, 10, 0))
    ELSE None

\* The watermark of the group the model crawls (Group.latest_post_date)
Watermark == DateTime(2024, 1, 5, 10, 0)

\* A raw item of the feed, by what the extractions of the loop return for
\* it: identified (visible, author name and user id read), the tooltip text
\* of its date (None: no tooltip), content (the text is read).  Of an item
\* that is not identified nothing else is read.
Unidentified == [identified |-> FALSE, date |-> None, content |-> FALSE]
Items ==
    {Unidentified} \cup
    {[identified |-> TRUE, date |-> d, content |-> c] :
        d \in {None} \cup {Some(t) : t \in DateTips}, c \in BOOLEAN}

\* The group pages of the model: "any", whose feed is any sequence of at
\* most MaxFeed raw items, crawled with the watermark Watermark or with none;
\* and "scenario", whose feed and watermark are fixed.
ScenarioFeed ==
    [i \in 1..6 |->
        [identified |-> TRUE,
         date |-> Some(<<"5 stycznia 2024 o 10:00", "4 stycznia 2024 o 10:00",
                         "3 stycznia 2024 o 10:00", "20 grudnia 2023 o 10:00",
                         "19 grudnia 2023 o 10:00", "18 grudnia 2023 o 10:00">>[i]),
         content |-> TRUE]]
ScenarioWatermark == DateTime(2024, 1, 1, 0, 0)

Pages == {"any", "scenario"}
PageSize(page) == IF page = "scenario" THEN Len(ScenarioFeed) ELSE MaxFeed
PageWatermarks(page) ==
    IF page = "scenario" THEN {Some(ScenarioWatermark)} ELSE {None, Some(Watermark)}
\* what the extractions may return for the raw item at position index
PageItems(page, index) == IF page = "scenario" THEN {ScenarioFeed[index + 1]} ELSE Items

\* _should_stop_for_old_post comparing with <= instead of <
ShouldStopForOldPost_NotStrict(parsed_date, latest_post_date, old_posts_streak) ==
    IF parsed_date = None \/ latest_post_date = None THEN <<FALSE, 0>>
    ELSE IF parsed_date[1] <= latest_post_date[1]
         THEN IF old_posts_streak + 1 >= 3 THEN <<TRUE, old_posts_streak + 1>>
              ELSE <<FALSE, old_posts_streak + 1>>
    ELSE <<FALSE, 0>>

\* _should_stop_for_old_post counting a date that was not parsed as old
ShouldStopForOldPost_UnparsedIsOld(parsed_date, latest_post_date, old_posts_streak) ==
    IF latest_post_date = None THEN <<FALSE, 0>>
    ELSE IF parsed_date = None \/ parsed_date[1] < latest_post_date[1]
         THEN IF old_posts_streak + 1 >= 3 THEN <<TRUE, old_posts_streak + 1>>
              ELSE <<FALSE, old_posts_streak + 1>>
    ELSE <<FALSE, 0>>

\* _should_stop_for_old_post stopping at a streak of 4
ShouldStopForOldPost_Threshold4(parsed_date, latest_post_date, old_posts_streak) ==
    IF parsed_date = None \/ latest_post_date = None THEN <<FALSE, 0>>
    ELSE IF parsed_date[1] < latest_post_date[1]
         THEN IF old_posts_streak + 1 >= 4 THEN <<TRUE, old_posts_streak + 1>>
              ELSE <<FALSE, old_posts_streak + 1>>
    ELSE <<FALSE, 0>>

\* _should_stop_for_old_post: <<should_stop, new_streak>>
ShouldStopForOldPost(parsed_date, latest_post_date, old_posts_streak) ==
    IF parsed_date = None \/ latest_post_date = None THEN <<FALSE, 0>>
    ELSE IF parsed_date[1] < latest_post_date[1]
         THEN IF old_posts_streak + 1 >= 3 THEN <<TRUE, old_posts_streak + 1>>
              ELSE <<FALSE, old_posts_streak + 1>>
    ELSE <<FALSE, 0>>

\* scrape_posts is called: the page is opened and scrolled once, and
\* number_of_posts raw items are in the DOM (l.420-440)
ScrapePosts ==
    /\ crawl.pc = "idle"
    /\ \E page \in Pages :
       \E latest \in PageWatermarks(page), cap \in 1..PageSize(page), n \in 0..PageSize(page) :
          crawl' = [IdleCrawl EXCEPT !.pc = "loop", !.latest_post_date = latest,
                                     !.max_posts_to_scan = cap, !.number_of_posts = n,
                                     !.page = page]
    /\ UNCHANGED <<jobVars, mgrVars, stageVars>>

\* The scroll of the loop never setting no_new_posts_streak back to zero
AfterScroll_NoReset(c, n) ==
    IF c.current_index >= c.number_of_posts - 2
    THEN LET streak == IF n <= c.number_of_posts THEN c.no_new_posts_streak + 1
                       ELSE c.no_new_posts_streak
         IN  [c EXCEPT !.number_of_posts = n,
                       !.no_new_posts_streak = streak,
                       !.pc = IF streak >= 3 \/ c.current_index >= n
                              THEN "returned" ELSE "loop"]
    ELSE c

\* The part of an iteration that scrolls and reloads the list (l.444-465):
\* n is the number of raw items in the DOM after the scroll.
AfterScroll(c, n) ==
    IF c.current_index >= c.number_of_posts - 2
    THEN LET streak == IF n <= c.number_of_posts THEN c.no_new_posts_streak + 1 ELSE 0
         IN  [c EXCEPT !.number_of_posts = n,
                       !.no_new_posts_streak = streak,
                       !.pc = IF streak >= 3 \/ c.current_index >= n
                              THEN "returned" ELSE "loop"]
    ELSE c

\* The part of an iteration that examines the item at current_index
\* (l.467-536)
Examine(c, item) ==
    LET s == [c EXCEPT !.seen = Append(@, item)]
        skip == [s EXCEPT !.current_index = @ + 1]
        parsed == IF item.date = None THEN None ELSE ParseFacebookDate(item.date[1])
        old == ShouldStopForOldPost(parsed, s.latest_post_date, s.old_posts_streak)
        d == IF item.date = None THEN s ELSE [s EXCEPT !.old_posts_streak = old[2]]
    IN  IF ~item.identified THEN skip
        ELSE IF item.date # None /\ old[1] THEN [d EXCEPT !.pc = "returned"]
        ELSE IF item.date # None /\ old[2] > 0 THEN [d EXCEPT !.current_index = @ + 1]
        ELSE IF ~item.content THEN [d EXCEPT !.current_index = @ + 1]
        ELSE [d EXCEPT !.dane_z_postu = Append(@, Len(s.seen)),
                       !.current_index = @ + 1,
                       !.scraped_posts = @ + 1,
                       !.pc = IF s.scraped_posts + 1 >= s.max_posts_to_scan
                              THEN "returned" ELSE "loop"]

\* One iteration of the while loop
CrawlIteration ==
    /\ crawl.pc = "loop"
    /\ \E n \in crawl.number_of_posts..PageSize(crawl.page) :
          LET c == AfterScroll(crawl, n)
          IN  IF c.pc = "returned" THEN crawl' = c
              ELSE \E item \in PageItems(crawl.page, c.current_index) :
                      crawl' = Examine(c, item)
    /\ UNCHANGED <<jobVars, mgrVars, stageVars>>

\* An operation on the page raises: the except of l.537 returns what was
\* collected so far
CrawlRaises ==
    /\ crawl.pc = "loop"
    /\ crawl' = [crawl EXCEPT !.pc = "returned"]
    /\ UNCHANGED <<jobVars, mgrVars, stageVars>>

CrawlNext ==
    \/ ScrapePosts
    \/ CrawlIteration
    \/ CrawlRaises

CrawlSpec == Init /\ [][CrawlNext]_vars


\* ---------------------------------------------------------- Collect stage
\* What a page of the source group can show, newest first: a post dated after
\* the initial watermark, a post whose date tooltip could not be read, a post
\* dated before the initial watermark
FeedItems ==
    { [identified |-> TRUE, date |-> Some("5 stycznia 2024 o 10:00"), content |-> TRUE,
       user_id |-> "u1", text |-> "offer"],
      [identified |-> TRUE, date |-> None, content |-> TRUE,
       user_id |-> "u2", text |-> "ask"],
      [identified |-> TRUE, date |-> Some("3 stycznia 2024 o 10:00"), content |-> TRUE,
       user_id |-> "u3", text |-> "old"] }
GroupFeeds == [1..2 -> FeedItems]

\* The while loop of scrape_posts over the items the page showed, in order
RECURSIVE RunCrawl(_, _)
RunCrawl(c, f) ==
    IF c.pc # "loop" \/ c.current_index >= Len(f) THEN c
    ELSE RunCrawl(Examine(c, f[c.current_index + 1]), f)

\* The list scrape_posts returns when the page showed the items f
ScrapeResult(f, latest, cap) ==
    LET c == RunCrawl([IdleCrawl EXCEPT !.pc = "loop", !.latest_post_date = latest,
                                        !.max_posts_to_scan = cap,
                                        !.number_of_posts = Len(f)], f)
    IN  [i \in 1..Len(c.dane_z_postu) |-> f[c.dane_z_postu[i]]]

\* check_duplicate_post: the rows with the content and the author of the post;
\* scalar_one_or_none raises when there are two or more
DuplicateRows(table, item) ==
    {r \in 1..Len(table) : table[r].content = item.text /\ table[r].user_id = item.user_id}
CheckDuplicatePost(table, item) ==
    IF Cardinality(DuplicateRows(table, item)) >= 2 THEN "raises"
    ELSE IF DuplicateRows(table, item) # {} THEN "duplicate" ELSE "new"

\* A new row of table posts
NewPost(item) ==
    [user_id |-> item.user_id, content |-> item.text, is_lead |-> "NULL",
     is_contacted |-> FALSE]

AfterItem(c) ==
    [c EXCEPT !.k = @ + 1, !.pc = IF c.k + 1 > Len(c.returned) THEN "finish" ELSE "check"]

\* The page of the group shows a feed
GroupPage ==
    /\ feed = <<>>
    /\ \E f \in GroupFeeds : feed' = f
    /\ UNCHANGED <<jobVars, mgrVars, crawl, runs, outbox, thr, postTable, groupRow, clock, coll>>

\* datetime.now() advances
Tick ==
    /\ clock < ClockStart + MaxTicks * Day
    /\ clock' = clock + Day
    /\ UNCHANGED <<jobVars, mgrVars, crawl, runs, outbox, thr, postTable, groupRow, feed, coll>>

\* A Collect run begins on the group: it notes its start time and reads the
\* watermark of the group
CollectBegins(p) ==
    /\ feed # <<>>
    /\ groupRow # None
    /\ coll[p].pc = "idle"
    /\ \E cap \in 1..2 :
          coll' = [coll EXCEPT ![p] =
                     [@ EXCEPT !.pc = "scrape", !.start_time = clock,
                               !.latest = Some(groupRow.last_scrape_date),
                               !.max_posts = cap,
                               !.rerun = /\ \E q \in Collectors : coll[q].pc = "done" /\ coll[q].ok
                                         /\ \A q \in Collectors : coll[q].pc \in {"idle", "done"}]]
    /\ UNCHANGED <<jobVars, mgrVars, crawl, runs, outbox, thr, postTable, groupRow, clock, feed>>

\* scrape_posts returns: the page showed the first k items of the feed; with
\* err an operation on the page raised inside the loop and the except of
\* l.537 returned what was collected so far
ScrapeReturns(p) ==
    /\ coll[p].pc = "scrape"
    /\ \E k \in 0..Len(feed), err \in BOOLEAN :
          /\ err => k < Len(feed)
          /\ LET r == ScrapeResult(SubSeq(feed, 1, k), coll[p].latest, coll[p].max_posts)
             IN  coll' = [coll EXCEPT ![p] =
                            [@ EXCEPT !.shown = k, !.returned = r, !.midway = err, !.k = 1,
                                      !.pc = IF r = <<>> THEN "finish" ELSE "check"]]
    /\ UNCHANGED <<jobVars, mgrVars, crawl, runs, outbox, thr, postTable, groupRow, clock, feed>>

\* scrape_posts raises before its loop (l.420-433)
ScrapeRaises(p) ==
    /\ coll[p].pc = "scrape"
    /\ coll' = [coll EXCEPT ![p] = [@ EXCEPT !.midway = TRUE, !.pc = "except"]]
    /\ UNCHANGED <<jobVars, mgrVars, crawl, runs, outbox, thr, postTable, groupRow, clock, feed>>

\* The exact-match check on the next returned post
PersistCheck(p) ==
    /\ coll[p].pc = "check"
    /\ LET d == CheckDuplicatePost(postTable, coll[p].returned[coll[p].k])
       IN  coll' = [coll EXCEPT ![p] =
                      IF d = "raises" THEN [@ EXCEPT !.pc = "except"]
                      ELSE IF d = "duplicate" THEN AfterItem(@)
                      ELSE [@ EXCEPT !.pc = "insert"]]
    /\ UNCHANGED <<jobVars, mgrVars, crawl, runs, outbox, thr, postTable, groupRow, clock, feed>>

\* The insert of the post that passed the check
PersistInsert(p) ==
    /\ coll[p].pc = "insert"
    /\ postTable' = Append(postTable, NewPost(coll[p].returned[coll[p].k]))
    /\ coll' = [coll EXCEPT ![p] = AfterItem([@ EXCEPT !.inserted = @ + 1])]
    /\ UNCHANGED <<jobVars, mgrVars, crawl, runs, outbox, thr, groupRow, clock, feed>>

\* The crawl succeeded: the watermark of the group becomes the start time
CollectSucceeds(p) ==
    /\ coll[p].pc = "finish"
    /\ groupRow # None
    /\ groupRow' = [last_scrape_date |-> coll[p].start_time, last_run_error |-> FALSE,
                    last_error_message |-> ""]
    /\ coll' = [coll EXCEPT ![p] = [@ EXCEPT !.pc = "done", !.ok = TRUE]]
    /\ UNCHANGED <<jobVars, mgrVars, crawl, runs, outbox, thr, postTable, clock, feed>>

\* The crawl failed: the group is flagged, the watermark stays
CollectFails(p) ==
    /\ coll[p].pc = "except"
    /\ groupRow # None
    /\ groupRow' = [groupRow EXCEPT !.last_run_error = TRUE,
                                    !.last_error_message = "Error: scrape"]
    /\ coll' = [coll EXCEPT ![p] = [@ EXCEPT !.pc = "done", !.ok = FALSE]]
    /\ UNCHANGED <<jobVars, mgrVars, crawl, runs, outbox, thr, postTable, clock, feed>>

CollectorNext(p) ==
    \/ CollectBegins(p)
    \/ ScrapeReturns(p)
    \/ ScrapeRaises(p)
    \/ PersistCheck(p)
    \/ PersistInsert(p)
    \/ CollectSucceeds(p)
    \/ CollectFails(p)

CollectNext ==
    \/ GroupPage
    \/ Tick
    \/ \E p \in Collectors : CollectorNext(p)

CollectSpec == Init /\ [][CollectNext]_vars

\* ------------------------------------------------- group rows: other writers
\* The dates the admin panel sends
AdminDates == {DateTime(2024, 1, 1, 0, 0)}

\* update_group_scrape_date (PATCH /api/groups/{bot_id}/{group_id}/scrape-date):
\* 404 when the row is missing, else last_scrape_date is overwritten
UpdateGroupScrapeDate ==
    /\ groupRow # None
    /\ \E new_date \in AdminDates :
          /\ groupRow.last_scrape_date # new_date
          /\ groupRow' = [groupRow EXCEPT !.last_scrape_date = new_date]
    /\ UNCHANGED <<jobVars, mgrVars, crawl, runs, outbox, thr, postTable, clock, feed, coll>>

\* sync_groups_from_config for the bot: a group of the configuration without
\* a row gets one, with the watermark initial_scrape_days before now; with
\* remove_old the row of a group that is not in the configuration is deleted
SyncGroupsFromConfig ==
    /\ \E in_config \in BOOLEAN, remove_old \in BOOLEAN :
          /\ groupRow' =
                IF in_config /\ groupRow = None
                THEN [last_scrape_date |-> clock - Day, last_run_error |-> FALSE,
                      last_error_message |-> ""]
                ELSE IF ~in_config /\ remove_old THEN None
                ELSE groupRow
          /\ groupRow' # groupRow
    /\ UNCHANGED <<jobVars, mgrVars, crawl, runs, outbox, thr, postTable, clock, feed, coll>>

\* One Collect run on the group, next to the other writers of its row
GroupNext ==
    \/ GroupPage
    \/ CollectorNext(1)
    \/ UpdateGroupScrapeDate
    \/ SyncGroupsFromConfig

GroupSpec == Init /\ [][GroupNext]_vars

\* --------------------------------------------------------- Classify stage
\* Contents of posts, as sequences of characters
ContentA == <<"a", "a", "a", "a", "a">>
ContentB == <<"A", "A", "A", "B", "B">>
ContentC == <<"b", "a", "a", "b", "b">>

\* The posts Collect can have stored for the bot, not yet classified
CollectedPosts ==
    { [user_id |-> "u1", content |-> ContentA, is_lead |-> "NULL", is_contacted |-> FALSE],
      [user_id |-> "u1", content |-> ContentB, is_lead |-> "NULL", is_contacted |-> FALSE],
      [user_id |-> "u1", content |-> ContentC, is_lead |-> "NULL", is_contacted |-> FALSE],
      [user_id |-> "u2", content |-> ContentC, is_lead |-> "NULL", is_contacted |-> FALSE] }

\* str.lower()
Lower(s) ==
    [i \in 1..Len(s) |-> IF s[i] = "A" THEN "a" ELSE IF s[i] = "B" THEN "b" ELSE s[i]]

Maximum(S) == CHOOSE x \in S : \A y \in S : y <= x

\* Length of the longest common subsequence
RECURSIVE Lcs(_, _)
Lcs(a, b) ==
    IF a = <<>> \/ b = <<>> THEN 0
    ELSE IF Head(a) = Head(b) THEN 1 + Lcs(Tail(a), Tail(b))
    ELSE Maximum({Lcs(Tail(a), b), Lcs(a, Tail(b))})

\* fuzz.ratio: the normalised indel similarity, 0..100 (rounded down)
Ratio(a, b) ==
    IF Len(a) + Len(b) = 0 THEN 100 ELSE (200 * Lcs(a, b)) \div (Len(a) + Len(b))

\* fuzz.partial_ratio: the best ratio of the shorter string against the
\* substrings of the longer one that an alignment of the shorter can cover
PartialRatio(s1, s2) ==
    LET short == IF Len(s1) <= Len(s2) THEN s1 ELSE s2
        long == IF Len(s1) <= Len(s2) THEN s2 ELSE s1
        windows == {SubSeq(long, i, j) : <<i, j>> \in
                      {w \in (1..Len(long)) \X (1..Len(long)) :
                          /\ w[1] <= w[2]
                          /\ w[2] - w[1] + 1 <= Len(short)
                          /\ \/ w[2] - w[1] + 1 = Len(short)
                             \/ w[1] = 1
                             \/ w[2] = Len(long)}}
    IN  IF short = <<>> THEN (IF long = <<>> THEN 100 ELSE 0)
        ELSE Maximum({Ratio(short, w) : w \in windows})

\* check_duplicate_lead: a committed lead of the same author whose content
\* is similar to the new content
CheckDuplicateLead(table, user_id, new_content, similarity_threshold) ==
    \E r \in 1..Len(table) :
        /\ table[r].user_id = user_id
        /\ table[r].is_lead = "TRUE"
        /\ table[r].content # <<>> /\ new_content # <<>>
        /\ PartialRatio(Lower(table[r].content), Lower(new_content)) >= similarity_threshold

\* get_not_classified_posts: the rows with is_lead NULL, in table order
RECURSIVE NotClassified(_, _)
NotClassified(table, r) ==
    IF r > Len(table) THEN <<>>
    ELSE (IF table[r].is_lead = "NULL" THEN <<r>> ELSE <<>>) \o NotClassified(table, r + 1)

\* The value classify_posts gives is_lead of a post the classifier decided
\* on: the session does not flush before a query (autoflush=False), so the
\* duplicate check reads the table as of the last commit
Classified(table, row, is_lead, similarity_threshold) ==
    IF ~is_lead THEN "FALSE"
    ELSE IF CheckDuplicateLead(table, table[row].user_id, table[row].content,
                               similarity_threshold)
         THEN "FALSE" ELSE "TRUE"

\* The leads of a batch that the duplicate check sets back to False
DemotedIn(table, batch, analyses, similarity_threshold) ==
    {batch[k] : k \in {k \in 1..Len(batch) :
        /\ k <= Len(analyses)
        /\ analyses[k]
        /\ Classified(table, batch[k], TRUE, similarity_threshold) = "FALSE"}}

\* One batch of classify_posts up to its commit: zip(batch, analyses)
CommitBatch(table, batch, analyses, similarity_threshold) ==
    [r \in 1..Len(table) |->
        IF \E k \in 1..Len(batch) : k <= Len(analyses) /\ batch[k] = r
        THEN LET k == CHOOSE k \in 1..Len(batch) : batch[k] = r
             IN  [table[r] EXCEPT !.is_lead =
                     Classified(table, r, analyses[k], similarity_threshold)]
        ELSE table[r]]

\* classify_posts: the batches of batch_size posts, a commit after each
RECURSIVE ClassifyPosts(_, _, _, _)
ClassifyPosts(table, todo, analyses, similarity_threshold) ==
    IF todo = <<>> THEN table
    ELSE LET n == IF Len(todo) < BatchSize THEN Len(todo) ELSE BatchSize
         IN  ClassifyPosts(CommitBatch(table, SubSeq(todo, 1, n), SubSeq(analyses, 1, n),
                                       similarity_threshold),
                           SubSeq(todo, n + 1, Len(todo)),
                           SubSeq(analyses, n + 1, Len(analyses)), similarity_threshold)

\* analyze_posts_batch: a post the output of the model has no result for
\* gets is_lead False
AnalyzePostsBatch(output) ==
    [k \in 1..Len(output) |-> IF output[k] = "missing" THEN FALSE ELSE output[k] = "TRUE"]

\* Collect stores one more post of the bot, one the exact-match check passes
PostCollected ==
    /\ Len(postTable) < MaxRows
    /\ \E post \in CollectedPosts :
          /\ \A r \in 1..Len(postTable) :
                postTable[r].user_id # post.user_id \/ postTable[r].content # post.content
          /\ postTable' = Append(postTable, post)
    /\ UNCHANGED <<jobVars, mgrVars, crawl, groupRow, clock, feed, coll, runs, outbox, thr>>

\* A Classify run begins, in a job (_run_classify_job, the processor) or from
\* the command line (classify_bot, the script): it reads the unclassified posts
ClassifyLoads(w) ==
    /\ runs[w].pc = "idle"
    /\ postTable # <<>>
    /\ \E path \in {"processor", "script"} :
          LET unclassified == NotClassified(postTable, 1)
          IN  runs' = [runs EXCEPT ![w] =
                         [@ EXCEPT !.stage = "classify", !.path = path,
                                   !.posts = unclassified,
                                   !.pc = IF unclassified = <<>> THEN "done"
                                          ELSE "analyze"]]
    /\ UNCHANGED <<jobVars, mgrVars, crawl, postTable, groupRow, clock, feed, coll, outbox, thr>>

\* classify_posts of the processor: the classifier decides on every post
ProcessorClassifies(w) ==
    /\ runs[w].pc = "analyze" /\ runs[w].path = "processor"
    /\ \E output \in [1..Len(runs[w].posts) -> {"TRUE", "FALSE"}] :
          /\ postTable' = ClassifyPosts(postTable, runs[w].posts,
                                        [k \in 1..Len(output) |-> output[k] = "TRUE"],
                                        SimilarityThreshold)
          /\ runs' = [runs EXCEPT ![w] = [@ EXCEPT !.output = output, !.pc = "done"]]
    /\ UNCHANGED <<jobVars, mgrVars, crawl, groupRow, clock, feed, coll, outbox, thr>>

\* classify_bot of the script: analyze_posts_batch on the output of the
\* model, then the updates of all the posts and one commit
ScriptClassifies(w) ==
    /\ runs[w].pc = "analyze" /\ runs[w].path = "script"
    /\ \E output \in [1..Len(runs[w].posts) -> {"TRUE", "FALSE", "missing"}] :
          /\ postTable' = CommitBatch(postTable, runs[w].posts, AnalyzePostsBatch(output),
                                      SimilarityThreshold)
          /\ runs' = [runs EXCEPT ![w] = [@ EXCEPT !.output = output, !.pc = "done"]]
    /\ UNCHANGED <<jobVars, mgrVars, crawl, groupRow, clock, feed, coll, outbox, thr>>

\* The call of the classifier raises: nothing was written
ClassifierFails(w) ==
    /\ runs[w].pc = "analyze"
    /\ runs' = [runs EXCEPT ![w] = [@ EXCEPT !.pc = "raised"]]
    /\ UNCHANGED <<jobVars, mgrVars, crawl, postTable, groupRow, clock, feed, coll, outbox, thr>>

ClassifierNext(w) ==
    \/ ClassifyLoads(w)
    \/ ProcessorClassifies(w)
    \/ ScriptClassifies(w)
    \/ ClassifierFails(w)

ClassifyNext ==
    \/ PostCollected
    \/ \E w \in Runs : ClassifierNext(w)

ClassifySpec == Init /\ [][ClassifyNext]_vars

\* Collect stores one more post of the bot, in every table of thr
ThresholdCollect ==
    /\ \E post \in CollectedPosts :
          /\ \A t \in Thresholds : Len(thr[t].table) < MaxRows
          /\ thr' = [t \in Thresholds |-> [thr[t] EXCEPT !.table = Append(@, post)]]
    /\ UNCHANGED <<jobVars, mgrVars, crawl, postTable, groupRow, clock, feed, coll, runs, outbox>>

\* A Classify run on the unclassified posts, the same classifier decisions
\* under each threshold
ThresholdClassify ==
    /\ \E t \in Thresholds : NotClassified(thr[t].table, 1) # <<>>
    /\ \E analyses \in [1..MaxRows -> BOOLEAN] :
          thr' = [t \in Thresholds |->
                    LET batch == NotClassified(thr[t].table, 1)
                        decided == [k \in 1..Len(batch) |-> analyses[batch[k]]]
                    IN  [table |-> CommitBatch(thr[t].table, batch, decided, t),
                         demoted |-> thr[t].demoted \cup
                                       DemotedIn(thr[t].table, batch, decided, t)]]
    /\ UNCHANGED <<jobVars, mgrVars, crawl, postTable, groupRow, clock, feed, coll, runs, outbox>>

ThresholdNext ==
    \/ ThresholdCollect
    \/ ThresholdClassify

ThresholdSpec == Init /\ [][ThresholdNext]_vars

\* -------------------------------------------------------------- Act stage
\* The jobs of kind message or invite that run on the bot
ActJobs == {1, 2}

\* max_messages_per_run / max_invitations_per_run: not set, or set
PerRunCaps == {0, 2}

Authors == <<"u1", "u2", "u3", "u4", "u5">>

\* The posts of the bot once Classify has found leads, some already contacted
LeadTables ==
    UNION {{[r \in 1..n |-> [user_id |-> Authors[r], content |-> ContentA,
                              is_lead |-> "TRUE", is_contacted |-> contacted[r]]] :
              contacted \in [1..n -> BOOLEAN]} : n \in 1..MaxRows}

\* The select of _run_process_job: the leads not yet contacted, in table order
RECURSIVE Uncontacted(_, _)
Uncontacted(table, r) ==
    IF r > Len(table) THEN <<>>
    ELSE (IF table[r].is_lead = "TRUE" /\ ~table[r].is_contacted THEN <<r>> ELSE <<>>)
         \o Uncontacted(table, r + 1)

\* candidates[:max_messages], with max_messages = cap or len(candidates)
Capped(candidates, cap) ==
    SubSeq(candidates, 1, IF cap = 0 \/ cap > Len(candidates) THEN Len(candidates) ELSE cap)

\* What the try block of process_candidates can do on one candidate.
\* Lead bot: generate_message raises, or send_message is reached; it is called
\* with the user id in place of the message box and raises on
\* message_box.type. Inviter bot: invite_user_to_group returns True or False,
\* and the commit after a sent invitation can raise.
Outcomes(path) ==
    IF path = "lead" THEN {"generate_raises", "send_raises"}
    ELSE {"invited", "not_invited", "commit_raises"}

\* The except of process_candidates leaving the loop instead of continuing
AfterAttempt_FailureAborts(run, outcome) ==
    [run EXCEPT !.i = @ + 1, !.attempts = Append(@, outcome),
                !.pc = IF run.i + 1 > Len(run.posts) \/ outcome # "invited"
                       THEN "done" ELSE "act"]

\* The locals after the try block of one candidate: the except continues
AfterAttempt(run, outcome) ==
    [run EXCEPT !.i = @ + 1, !.attempts = Append(@, outcome),
                !.pc = IF run.i + 1 > Len(run.posts) THEN "done" ELSE "act"]

\* Classify has left leads in table posts
LeadsWaiting ==
    /\ postTable = <<>>
    /\ \E table \in LeadTables : postTable' = table
    /\ UNCHANGED <<jobVars, mgrVars, crawl, groupRow, clock, feed, coll, runs, outbox, thr>>

\* A job of kind message or invite reads its candidates; start_job checks
\* nothing about the other jobs of the bot
ActLoads(j) ==
    /\ runs[j].pc = "idle"
    /\ postTable # <<>>
    /\ \E path \in {"lead", "inviter"}, cap \in PerRunCaps :
          LET candidates == Capped(Uncontacted(postTable, 1), cap)
          IN  runs' = [runs EXCEPT ![j] =
                         [@ EXCEPT !.stage = "act", !.path = path, !.posts = candidates,
                                   !.pc = IF candidates = <<>> THEN "done" ELSE "act"]]
    /\ UNCHANGED <<jobVars, mgrVars, crawl, postTable, groupRow, clock, feed, coll, outbox, thr>>

\* One candidate of process_candidates
ActCandidate(j) ==
    /\ runs[j].pc = "act"
    /\ \E outcome \in Outcomes(runs[j].path) :
          LET row == runs[j].posts[runs[j].i]
          IN  /\ outbox' = IF outcome \in {"invited", "commit_raises"}
                           THEN outbox \cup {<<j, row>>} ELSE outbox
              /\ postTable' = IF outcome = "invited"
                              THEN [postTable EXCEPT ![row].is_contacted = TRUE]
                              ELSE postTable
              /\ runs' = [runs EXCEPT ![j] = AfterAttempt(@, outcome)]
    /\ UNCHANGED <<jobVars, mgrVars, crawl, groupRow, clock, feed, coll, thr>>

ActNext ==
    \/ LeadsWaiting
    \/ \E j \in ActJobs : ActLoads(j)
    \/ \E j \in ActJobs : ActCandidate(j)

ActSpec == Init /\ [][ActNext]_vars

\* ------------------------------------------- initialize, called concurrently
\* JobManager.initialize (job_manager.py l.48-63) as its callers run it: the
\* startup hook and every start-job handler of the admin panel call
\* `await job_manager.initialize()`, and the coroutine is suspended inside
\* cleanup_stale_jobs before it sets _initialized.

\* `if self._initialized: return`, else the call goes on to cleanup_stale_jobs
InitializeCalled(c) ==
    /\ boot[c].pc = "idle"
    /\ boot' = [boot EXCEPT ![c].pc = IF initialized THEN "returned" ELSE "select"]
    /\ UNCHANGED <<jobVars, crawl, stageVars, timed>>

\* cleanup_stale_jobs: the SELECT of the rows with status "running"; the
\* session keeps the rows it loaded, with log_messages as read
CleanupStaleSelects(c) ==
    /\ boot[c].pc = "select"
    /\ boot' = [boot EXCEPT
                   ![c].stale = [j \in StaleJobs(dbJobs) |-> dbJobs[j].log],
                   ![c].pc = IF StaleJobs(dbJobs) = {} THEN "flag" ELSE "commit"]
    /\ UNCHANGED <<jobVars, crawl, stageVars, timed>>

\* cleanup_stale_jobs: `await db.commit()` writes status and log_messages of
\* the rows the SELECT returned
CleanupStaleCommits(c) ==
    /\ boot[c].pc = "commit"
    /\ dbJobs' = [j \in DOMAIN dbJobs |->
                    IF j \in DOMAIN boot[c].stale
                    THEN [dbJobs[j] EXCEPT !.status = "failed",
                                           !.log = Append(boot[c].stale[j], RestartMsg)]
                    ELSE dbJobs[j]]
    /\ boot' = [boot EXCEPT ![c].pc = "flag", ![c].stale = <<>>]
    /\ UNCHANGED <<initialized, registry, ctx, task, hist, dbRuns, posts, crashes,
                   cancelRet>>
    /\ UNCHANGED <<crawl, stageVars, timed>>

\* the cleanup task is created and `self._initialized = True`
InitializeReturns(c) ==
    /\ boot[c].pc = "flag"
    /\ initialized' = TRUE
    /\ boot' = [boot EXCEPT ![c].pc = "returned"]
    /\ UNCHANGED <<registry, ctx, task, hist, dbJobs, dbRuns, posts, crashes,
                   cancelRet>>
    /\ UNCHANGED <<crawl, stageVars, timed>>

\* a start-job handler: `await job_manager.initialize()` has returned to it,
\* and it calls start_job
HandlerStartsJob(c, kind) ==
    /\ boot[c].pc = "returned"
    /\ StartJob(kind)

\* the steps of a task nobody cancels
BootTaskNext(j) ==
    \/ TaskStarts(j)
    \/ Dispatch(j)
    \/ ScrapeStep(j)
    \/ CompletedStep(j)
    \/ FailedStep(j)
    \/ StageRaises(j)
    \/ BotConfigMissing(j)

BootNext ==
    \/ \E c \in Callers : InitializeCalled(c)
    \/ \E c \in Callers : CleanupStaleSelects(c)
    \/ \E c \in Callers : CleanupStaleCommits(c)
    \/ \E c \in Callers : InitializeReturns(c)
    \/ \E c \in Callers : \E kind \in ApiKinds : HandlerStartsJob(c, kind)
    \/ \E j \in JobIds : BootTaskNext(j)

BootSpec == Init /\ [][BootNext]_vars

\* ------------------------------------------------- periodic cleanup and time
\* JobManager._periodic_cleanup (job_manager.py l.385-406) with the times it
\* reads.  Time moves in steps of CleanupInterval, the sleep of the loop; a
\* job starts, runs and ends at any of these moments.  ended_at (history) is
\* the time at which the entry took its terminal status: JobContext has no
\* such field.

\* start_job: JobContext(status="pending", started_at=datetime.now())
TimedStartJob ==
    LET j == timed.started + 1
    IN  /\ j \in JobIds
        /\ timed' = [timed EXCEPT
                       !.started = j,
                       !.jobs = @ @@ (j :> [status |-> "pending",
                                            started_at |-> timed.now,
                                            ended_at |-> None])]
        /\ UNCHANGED <<jobVars, crawl, stageVars, boot>>

\* _run_job: context.status = "running"
TimedJobRuns(j) ==
    /\ j \in DOMAIN timed.jobs
    /\ timed.jobs[j].status = "pending"
    /\ timed' = [timed EXCEPT !.jobs[j].status = "running"]
    /\ UNCHANGED <<jobVars, crawl, stageVars, boot>>

\* _run_job: context.status = "completed" | "cancelled" | "failed"
TimedJobEnds(j, status) ==
    /\ j \in DOMAIN timed.jobs
    /\ timed.jobs[j].status = "running"
    /\ timed' = [timed EXCEPT !.jobs[j].status = status,
                              !.jobs[j].ended_at = Some(timed.now)]
    /\ UNCHANGED <<jobVars, crawl, stageVars, boot>>

\* `await asyncio.sleep(300)` returns
CleanupSleeps ==
    /\ ~timed.due
    /\ timed.now < MaxSleeps * CleanupInterval
    /\ timed' = [timed EXCEPT !.now = @ + CleanupInterval, !.due = TRUE]
    /\ UNCHANGED <<jobVars, crawl, stageVars, boot>>

\* to_remove of one pass: age is (cutoff - context.started_at)
ToRemove(jobs, cutoff) ==
    {j \in DOMAIN jobs :
        /\ jobs[j].status \in Terminal
        /\ cutoff - jobs[j].started_at > MaxAge}

\* one pass of the loop: `del self._jobs[job_id]` for every job in to_remove
CleanupPass ==
    /\ timed.due
    /\ timed' = [timed EXCEPT
                   !.due = FALSE,
                   !.jobs = [j \in DOMAIN @ \ ToRemove(@, timed.now) |-> @[j]]]
    /\ UNCHANGED <<jobVars, crawl, stageVars, boot>>

TimedNext ==
    \/ TimedStartJob
    \/ \E j \in JobIds : TimedJobRuns(j)
    \/ \E j \in JobIds : \E status \in Terminal : TimedJobEnds(j, status)
    \/ CleanupSleeps
    \/ CleanupPass

TimedSpec == Init /\ [][TimedNext]_vars

\* ----------------------------------------------------------------- claims
Live == DOMAIN ctx
Calls(j) == hist[j].calls
LastCall(j) == IF Calls(j) = <<>> THEN <<"none", "none">> ELSE Calls(j)[Len(Calls(j))]
RunOf(j) == dbRuns[ctx[j].bot_run_id]

\* C1: once the status of a Job (live handle, persisted row) is completed,
\* failed or cancelled, no later step changes it.
C1_TerminalAbsorbing ==
    [][/\ \A j \in DOMAIN ctx \cap DOMAIN ctx' :
             ctx[j].status \in Terminal => ctx'[j].status = ctx[j].status
       /\ \A j \in DOMAIN dbJobs :
             dbJobs[j].status \in Terminal => dbJobs'[j].status = dbJobs[j].status]_vars

\* C2: a job for which cancel_job returned true (its cancellation token is
\* set) ends cancelled: once its task is over, its status is cancelled.
C2_CancelledWhenOver ==
    \A j \in Live :
        ctx[j].cancellation_token /\ task[j].pc = "done" => ctx[j].status = "cancelled"

\* C3: cancel_job(j) returns false exactly when j is not in the registry or
\* its status is terminal, and then changes nothing; otherwise the status is
\* pending or running and it returns true.
C3_CancelReturn ==
    [][cancelRet = NoRet /\ cancelRet' # NoRet =>
        LET j == cancelRet'.job
            refused == j \notin registry \/ ctx[j].status \in Terminal
        IN  /\ cancelRet'.value = ~refused
            /\ refused => UNCHANGED <<initialized, registry, ctx, task, hist, dbJobs,
                                      dbRuns, posts, crashes>>
            /\ ~refused => ctx[j].status \in {"pending", "running"}]_vars

C3_Witness ==
    /\ cancelRet # NoRet
    /\ ~cancelRet.value
    /\ cancelRet.job \in registry
    /\ ctx[cancelRet.job].status \in Terminal

\* C4: the recovery of initialize leaves no Job row running: the rows that
\* were running are failed with the restart message appended to their log,
\* every other row is unchanged.
C4_Recovery ==
    [][~initialized /\ initialized' =>
        /\ DOMAIN dbJobs' = DOMAIN dbJobs
        /\ \A j \in DOMAIN dbJobs :
              /\ dbJobs'[j].status # "running"
              /\ dbJobs[j].status = "running" =>
                    dbJobs'[j] = [dbJobs[j] EXCEPT !.status = "failed",
                                                   !.log = Append(@, RestartMsg)]
              /\ dbJobs[j].status # "running" => dbJobs'[j] = dbJobs[j]]_vars

C4_Witness ==
    /\ initialized
    /\ crashes > 0
    /\ \E j \in DOMAIN dbJobs :
          /\ dbJobs[j].status = "failed"
          /\ dbJobs[j].log # <<>>
          /\ dbJobs[j].log[Len(dbJobs[j].log)] = RestartMsg

\* C5: a full job calls Collect, Classify, Act in this order, each after the
\* one before has returned; once a stage has raised no stage is called, and
\* the Job (handle and row) and its Run end failed.
FullOrder ==
    << <<"Collect", "start">>, <<"Collect", "end">>, <<"Classify", "start">>,
       <<"Classify", "end">>, <<"Act", "start">>, <<"Act", "end">> >>

IsPrefix(s, t) == Len(s) <= Len(t) /\ s = SubSeq(t, 1, Len(s))

\* the calls c are those of a pipeline: a prefix of FullOrder, the last
\* started stage possibly left by an exception or by cancellation
PipelineCalls(c) ==
    \/ IsPrefix(c, FullOrder)
    \/ /\ Len(c) >= 2
       /\ IsPrefix(SubSeq(c, 1, Len(c) - 1), FullOrder)
       /\ c[Len(c) - 1][2] = "start"
       /\ c[Len(c)][1] = c[Len(c) - 1][1]
       /\ c[Len(c)][2] \in {"raised", "cancelled"}

\* C5: the stage calls of a full job follow the pipeline order; after a raise
\* the job and its Run end failed.
C5_StagesInOrder ==
    \A j \in Live :
        ctx[j].job_type = "full" =>
            /\ PipelineCalls(Calls(j))
            /\ LastCall(j)[2] = "raised" =>
                  /\ ctx[j].status = "failed"
                  /\ task[j].pc = "done" =>
                        dbJobs[j].status = "failed" /\ RunOf(j).status = "failed"

C5_Witness ==
    \E j \in Live :
        /\ ctx[j].job_type = "full"
        /\ Calls(j) = SubSeq(FullOrder, 1, 3) \o << <<"Classify", "raised">> >>
        /\ task[j].pc = "done"

\* C6: in a full job the progress (handle and row) is within [0,33] while
\* Collect runs, [33,66] while Classify runs, [66,100] while Act runs.
StageRange(stage) ==
    IF stage = "Collect" THEN 0..33
    ELSE IF stage = "Classify" THEN 33..66
    ELSE 66..100

\* C6: the progress of a full job is inside the range of the running stage.
C6_ProgressInStageRange ==
    \A j \in Live :
        ctx[j].job_type = "full" /\ StageOf(task[j].pc) # "none" =>
            /\ ctx[j].progress \in StageRange(StageOf(task[j].pc))
            /\ dbJobs[j].progress \in StageRange(StageOf(task[j].pc))

\* C7: a full job that failed in Classify ends with its Run failed with the
\* Classify error and its progress (handle and row) between 33 and 66; the
\* Items persisted so far stay persisted.
C7_FailedInClassify(j) ==
    /\ ctx[j].job_type = "full"
    /\ LastCall(j) = <<"Classify", "raised">>
    /\ task[j].pc = "done"

\* C7: Items stay persisted, and a full job that failed in Classify has its
\* Run failed with the Classify error and its progress within 33..66.
C7_ClassifyFailure ==
    [][/\ \A i \in DOMAIN posts : i \in DOMAIN posts'
       /\ \A j \in DOMAIN ctx' :
             C7_FailedInClassify(j)' =>
                /\ RunOf(j)'.status = "failed"
                /\ RunOf(j)'.error = "Classify error"
                /\ ctx'[j].progress \in 33..66
                /\ dbJobs'[j].progress \in 33..66]_vars

\* C8: an exception raised in a stage is caught by the job task: the Job is
\* failed, the message is the last entry of its log and the error of its
\* Run; no stage is called afterwards, and Job rows appear only by start_job.
StageError(stage) ==
    IF stage = "Collect" THEN "Collect error"
    ELSE IF stage = "Classify" THEN "Classify error"
    ELSE "Act error"

C8_Caught ==
    \A j \in Live :
        LastCall(j)[2] = "raised" =>
            /\ ctx[j].status = "failed"
            /\ task[j].pc \in FailedAwaits \cup {"done"}
            /\ task[j].pc = "done" =>
                  /\ dbJobs[j].status = "failed"
                  /\ dbJobs[j].log[Len(dbJobs[j].log)] = "Error: " \o StageError(LastCall(j)[1])
                  /\ RunOf(j).status = "failed"
                  /\ RunOf(j).error = StageError(LastCall(j)[1])

\* C8: a raised stage exception leaves the job failed and logged, with no
\* further stage call and no Job row created other than by start_job.
C8_NoRetry ==
    [][/\ C8_Caught'
       /\ \A j \in DOMAIN ctx \cap DOMAIN ctx' :
             LastCall(j)[2] = "raised" => hist'[j] = hist[j]
       /\ DOMAIN dbJobs' # DOMAIN dbJobs => \E kind \in StartKinds : StartJob(kind)]_vars

C8_Witness ==
    \E j \in Live :
        /\ LastCall(j) = <<"Act", "raised">>
        /\ task[j].pc = "done"
        /\ RunOf(j).error = "Act error"

OlderThanWatermark(item) ==
    /\ item.identified
    /\ item.date # None
    /\ ParseFacebookDate(item.date[1]) # None
    /\ ParseFacebookDate(item.date[1])[1] < Watermark

ThreeOlderAt(i) ==
    /\ i >= 1
    /\ i + 2 <= Len(crawl.seen)
    /\ \A k \in i..(i + 2) : OlderThanWatermark(crawl.seen[k])

\* C10: three consecutive examined items older than the watermark end the
\* crawl at the third of them.
C10_StopsAtThirdOlder ==
    crawl.latest_post_date = Some(Watermark) =>
        \A i \in 1..Len(crawl.seen) :
            ThreeOlderAt(i) =>
                /\ crawl.pc = "returned"
                /\ Len(crawl.seen) = i + 2
                /\ \A k \in 1..Len(crawl.dane_z_postu) : crawl.dane_z_postu[k] < i

C10_Witness ==
    /\ crawl.latest_post_date = Some(Watermark)
    /\ crawl.pc = "returned"
    /\ ThreeOlderAt(Len(crawl.seen) - 2)
    /\ crawl.number_of_posts > Len(crawl.seen)

\* C11: an examined item whose timestamp is missing or is not parsed never
\* increments the old-item streak, never stops the crawl (the crawl returns
\* at it only by the cap on collected items), and is collected when its
\* content is read.
NoTimestamp(item) ==
    /\ item.identified
    /\ item.date = None \/ ParseFacebookDate(item.date[1]) = None

LastSeen(c) == c.seen[Len(c.seen)]

C11_UndatedIsRecent ==
    [][Len(crawl'.seen) = Len(crawl.seen) + 1 /\ NoTimestamp(LastSeen(crawl')) =>
        /\ crawl'.old_posts_streak <= crawl.old_posts_streak
        /\ LastSeen(crawl').content =>
              crawl'.dane_z_postu = Append(crawl.dane_z_postu, Len(crawl'.seen))
        /\ crawl'.pc = "returned" =>
              /\ LastSeen(crawl').content
              /\ crawl'.scraped_posts >= crawl'.max_posts_to_scan]_vars

C11_Witness ==
    /\ crawl.latest_post_date = Some(Watermark)
    /\ crawl.pc = "loop"
    /\ crawl.old_posts_streak = 2
    /\ Len(crawl.seen) >= 3
    /\ NoTimestamp(LastSeen(crawl))
    /\ crawl.dane_z_postu = <<Len(crawl.seen)>>

\* C12: the items a crawl has collected are exactly the examined items that
\* are readable (identified, content read) and whose timestamp is not
\* strictly older than the watermark, in feed order; on the scenario page a
\* crawl stopped by the old-item streak has examined all six items and
\* collected exactly the first three.
OlderThan(item, latest) ==
    /\ latest # None
    /\ item.identified
    /\ item.date # None
    /\ ParseFacebookDate(item.date[1]) # None
    /\ ParseFacebookDate(item.date[1])[1] < latest[1]

Returned(k) == \E i \in 1..Len(crawl.dane_z_postu) : crawl.dane_z_postu[i] = k

C12_ReturnsReadableNotOlder ==
    /\ \A k \in 1..Len(crawl.seen) :
          Returned(k) <=> /\ crawl.seen[k].identified
                          /\ crawl.seen[k].content
                          /\ ~OlderThan(crawl.seen[k], crawl.latest_post_date)
    /\ \A i \in 1..Len(crawl.dane_z_postu) :
          /\ crawl.dane_z_postu[i] \in 1..Len(crawl.seen)
          /\ i > 1 => crawl.dane_z_postu[i - 1] < crawl.dane_z_postu[i]
    /\ crawl.page = "scenario" /\ crawl.old_posts_streak >= 3 =>
          /\ crawl.pc = "returned"
          /\ crawl.seen = ScenarioFeed
          /\ crawl.dane_z_postu = <<1, 2, 3>>

C12_Witness ==
    /\ crawl.page = "scenario"
    /\ crawl.pc = "returned"
    /\ crawl.old_posts_streak = 3
    /\ crawl.dane_z_postu = <<1, 2, 3>>

\* C13: a crawl that succeeds leaves the start time of that crawl as the
\* watermark of the group, and a crawl that runs alone right after a
\* successful one, on a page that shows no item the earlier crawl was not
\* shown, inserts no post.
C13_Succeeds(p) == coll[p].pc = "finish" /\ coll'[p].pc = "done"

C13_RerunOf(p, q) ==
    /\ q # p
    /\ coll[p].rerun /\ ~coll[p].midway
    /\ coll[q].pc = "done" /\ coll[q].ok /\ ~coll[q].midway
    /\ coll[p].shown <= coll[q].shown
    /\ \A o \in Collectors \ {p} : coll[o].pc \in {"idle", "done"}

\* C13: watermark = start time of the successful crawl; an immediate re-run inserts nothing
C13_WatermarkIsStartTime ==
    [][\A p \in Collectors : C13_Succeeds(p) =>
          /\ groupRow'.last_scrape_date = coll[p].start_time
          /\ \A q \in Collectors : C13_RerunOf(p, q) => coll[p].inserted = 0]_vars

\* C14: a crawl during which an error was raised while paging or reading
\* items ends with the group flagged, with an error message, and with the
\* watermark the group had before.
C14_Ends(p) == coll[p].pc # "done" /\ coll'[p].pc = "done"

\* C14: a crawl with an error while paging ends flagged, watermark unchanged
C14_FailedCrawlFlagsGroup ==
    [][\A p \in Collectors : C14_Ends(p) /\ coll[p].midway =>
          /\ groupRow'.last_run_error
          /\ groupRow'.last_error_message # ""
          /\ groupRow'.last_scrape_date = groupRow.last_scrape_date]_vars

\* C15: table posts never holds two rows with the same author and the same
\* content for the bot.
C15_NoExactDuplicate ==
    \A r1, r2 \in 1..Len(postTable) :
        postTable[r1].user_id = postTable[r2].user_id
            /\ postTable[r1].content = postTable[r2].content => r1 = r2

\* C17: with the same posts and the same classifier decisions, every post
\* the duplicate check demotes under a threshold is also demoted under any
\* lower threshold.
C17_LowerThresholdDemotesMore ==
    \A t1, t2 \in Thresholds : t2 < t1 => thr[t1].demoted \subseteq thr[t2].demoted

\* C16: table posts never holds two leads of the same author whose contents
\* are similar at or above the threshold.
C16_NoSimilarLeads ==
    \A r1, r2 \in 1..Len(postTable) :
        /\ r1 # r2
        /\ postTable[r1].user_id = postTable[r2].user_id
        /\ postTable[r1].is_lead = "TRUE" /\ postTable[r2].is_lead = "TRUE"
        => PartialRatio(Lower(postTable[r1].content), Lower(postTable[r2].content))
              < SimilarityThreshold

\* C19: a Classify step in which the call of the classifier failed, or its
\* output had no decision for a post, leaves is_lead of every such post NULL.
C19_Step(w) == runs[w].pc = "analyze" /\ runs'[w].pc \in {"done", "raised"}

C19_Undecided(w, k) == runs'[w].pc = "raised" \/ runs'[w].output[k] = "missing"

\* C19: posts without a decision keep is_lead NULL
C19_UndecidedStaysUnclassified ==
    [][\A w \in Runs : C19_Step(w) =>
          \A k \in 1..Len(runs[w].posts) :
              C19_Undecided(w, k) /\ postTable[runs[w].posts[k]].is_lead = "NULL"
                  => postTable'[runs[w].posts[k]].is_lead = "NULL"]_vars

\* C18: in the Act stage a candidate on which acting fails changes no post,
\* and the run goes on to the next candidate: a run that has ended has
\* attempted every candidate within its cap; a candidate acted on is stored
\* as contacted and every other post keeps its value.
C18_Attempts(j) == runs[j].pc = "act" /\ runs'[j].i = runs[j].i + 1

C18_Failed(j) == runs'[j].attempts[runs[j].i] \in {"generate_raises", "send_raises", "not_invited", "commit_raises"}

C20_ActedOnByOneJob ==
    \A row \in 1..Len(postTable) : Cardinality({j \in ActJobs : <<j, row>> \in outbox}) <= 1

\* C24: a fetch-more that loads no additional raw item adds one to the
\* counter and one that loads more sets it to zero; when the counter
\* reaches 3 the crawl returns what it has collected, and nothing else
\* changes the counter.
C24_FetchesMore ==
    /\ crawl.pc = "loop"
    /\ crawl.current_index >= crawl.number_of_posts - 2
    /\ crawl' # crawl
    /\ crawl' # [crawl EXCEPT !.pc = "returned"]

C24_NoFetch == crawl.pc = "loop" /\ ~C24_FetchesMore

\* C24: three fetch-more operations in a row without new items end the crawl normally
C24_StopsWhenFeedStalls ==
    [][/\ C24_FetchesMore /\ crawl'.number_of_posts > crawl.number_of_posts
            => crawl'.no_new_posts_streak = 0
       /\ C24_FetchesMore /\ crawl'.number_of_posts <= crawl.number_of_posts
            => /\ crawl'.no_new_posts_streak = crawl.no_new_posts_streak + 1
               /\ crawl'.no_new_posts_streak >= 3
                    => /\ crawl'.pc = "returned"
                       /\ crawl'.dane_z_postu = crawl.dane_z_postu
                       /\ crawl'.seen = crawl.seen
       /\ C24_NoFetch
            => /\ crawl'.no_new_posts_streak = crawl.no_new_posts_streak
               /\ crawl'.number_of_posts = crawl.number_of_posts
       /\ crawl.no_new_posts_streak < 3]_vars

C24_Witness ==
    /\ crawl.pc = "returned"
    /\ crawl.no_new_posts_streak = 3
    /\ crawl.dane_z_postu # <<>>
    /\ crawl.old_posts_streak < 3
    /\ crawl.scraped_posts < crawl.max_posts_to_scan

\* C29: every examined item that is not strictly older than the watermark
\* sets the old-item streak to zero.
C29_NotOlderResetsStreak ==
    [][/\ crawl.pc = "loop"
       /\ Len(crawl'.seen) = Len(crawl.seen) + 1
       /\ LastSeen(crawl').identified
       /\ ~OlderThan(LastSeen(crawl'), crawl.latest_post_date)
       => crawl'.old_posts_streak = 0]_vars

\* C30: a crawl that has returned has examined every raw item the page had
\* loaded, unless the old-item streak or the cap on collected items stopped it.
C30_AllLoadedExamined ==
    crawl.pc = "returned" =>
        \/ Len(crawl.seen) = crawl.number_of_posts
        \/ crawl.old_posts_streak >= 3
        \/ crawl.scraped_posts >= crawl.max_posts_to_scan

\* C21: the row of a source group changes only in the step that ends a
\* crawl of the Collect stage, and it is never removed.
C21_EndsCrawl(p) == coll[p].pc \in {"finish", "except"} /\ coll'[p].pc = "done"

\* C21: only Collect writes the row of a group, and the row is never deleted
C21_OnlyCollectWritesGroup ==
    [][groupRow' # groupRow =>
          /\ groupRow' # None
          /\ \E p \in Collectors : C21_EndsCrawl(p)]_vars

\* C28: the progress of a job, in its context and in its row, never
\* decreases from one step to the next.
C28_ProgressNeverDecreases ==
    [][/\ \A j \in DOMAIN ctx \cap DOMAIN ctx' : ctx'[j].progress >= ctx[j].progress
       /\ \A j \in DOMAIN dbJobs : dbJobs'[j].progress >= dbJobs[j].progress]_vars

\* C26: once recovery has run after a crash, the Run of every job of an
\* earlier process is out of status running and has finished_at set.
C26_NoRunLeftRunning ==
    initialized =>
        \A j \in DOMAIN dbJobs :
            j \notin DOMAIN task =>
                /\ dbRuns[dbJobs[j].bot_run_id].status # "running"
                /\ dbRuns[dbJobs[j].bot_run_id].finished

\* C27: the context of a job, its Job row and its Run row never show two
\* different terminal statuses.
C27_Agree(a, b) == a \in Terminal /\ b \in Terminal => a = b

\* C27: no two of a job's three records show different terminal statuses.
C27_RecordsAgree ==
    \A j \in DOMAIN ctx :
        /\ C27_Agree(ctx[j].status, dbJobs[j].status)
        /\ C27_Agree(ctx[j].status, dbRuns[ctx[j].bot_run_id].status)
        /\ C27_Agree(dbJobs[j].status, dbRuns[ctx[j].bot_run_id].status)

\* C22: a job is cancelled only at a stage boundary: no stage call is ended
\* by a cancellation delivered at one of the awaits inside the stage.
C22_NoStageInterrupted ==
    \A j \in Live :
        \A i \in DOMAIN Calls(j) : Calls(j)[i][2] # "cancelled"

\* C23: the periodic cleanup removes an entry of the registry only when it is
\* terminal, and never one that took its terminal status less than 10 minutes
\* earlier.
C23_RemovedOnlyWhenOld ==
    [][\A j \in DOMAIN timed.jobs :
          j \notin DOMAIN timed'.jobs =>
              /\ timed.jobs[j].status \in Terminal
              /\ timed.now - timed.jobs[j].ended_at[1] >= MaxAge]_vars

\* C25: recovery never sets to failed the row of a job that has a live task
\* in this process.
C25_LiveJobNotFailed ==
    \A j \in DOMAIN ctx :
        ctx[j].status \in {"pending", "running"} => dbJobs[j].status # "failed"

=========================================================================
